---- MODULE Spec2Model ----
(***************************************************************************)
(* Model of the WeDrive chunked uploader: TokenManager (token_manager.py)  *)
(* and WeDriveUploader.upload_file / upload_part_task (uploader.py).       *)
(* Every action runs one coroutine from one asyncio suspension point to    *)
(* the next; the program state is handled as a record S so that a handler  *)
(* and the calls it makes compose into one step.                           *)
(***************************************************************************)
EXTENDS Integers, Sequences, FiniteSets, TLC

\* ---- bounds of the model ----
MaxBlocks == 3
NumClients == 2
MaxTicks == 1
MaxPartFaults == 5
MaxFaultyBlocks == 1
MaxPoolBlocks == 5
\* Model files are cut into chunks of ChunkSize bytes (CHUNK_SIZE is 2 MiB,
\* a multiple of the 64-byte SHA-1 block, at uploader.py line 104).
ChunkSize == 64
\* FileTokenService: tokens that uuid4 can return, steps of the wall clock,
\* successful handle_file calls per token.
MaxTokens == 2
MaxFtsTicks == 3
MaxServes == 2
\* Bytes fed to a SafeSHA1 object driven call by call.
MaxFed == 71
\* recursive_search: folders waiting in the queue, 100-item pages of a folder.
MaxQueue == 2
MaxPages == 3
\* create_folder_by_path: components of the path.
MaxParts == 3
\* Delete commands handled concurrently by the plugin.
NumCmds == 3

\* ---- program constants ----
Margin == 600
DefaultExpiresIn == 7200
\* Faulty variant: the pool is one slot wider.
MAX_CONCURRENT_UPLOADS_Four == 3 + 1
MAX_CONCURRENT_UPLOADS == 3
PartAttempts == 5
InitAttempts == 2
FinishAttempts == 2
\* FileTokenService.__init__: default_timeout, in seconds.
default_timeout == 300
\* recursive_search, line 294.
max_requests == 100

None == "None"
NoRefresh == "NoRefresh"
Raised == "Raised"
HardcodedToken == "H"
ServerTokens == {"T1", "T2"}
TickLen == Margin
ExpiresInSet == {Margin, Margin * 2, DefaultExpiresIn}

MainProc == 0
Tasks == 1..MaxPoolBlocks
Clients == (MaxPoolBlocks + 1)..(MaxPoolBlocks + NumClients)
Procs == {MainProc} \cup Tasks \cup Clients

VARIABLES
  \* TokenManager
  access_token, expires_at, hardcoded_token,
  locked, waiters, clock, tcall,
  \* upload_file coroutine
  upc, fileExists, fileN, initRetry, finRetry, upload_key, index,
  pending_tasks, result, sem, reqTok,
  \* upload_part_task coroutines
  task,
  \* history of requests
  events, refreshedOk,
  initSent, finishSent, initForced, initAuthFails, init_res, partFaults,
  faulty, finForced, finAuthFails, fin_res, answers,
  \* calculate_block_shas and its SafeSHA1 object
  calc, sha1,
  \* a SafeSHA1 object driven call by call: what was fed, the last call
  fed, hcall,
  \* FileTokenService
  staged_files, fclock, registered, served, fret,
  \* a recursive_search call, a create_folder_by_path call, the plugin
  rs, cf, plug

uploadVars == << access_token, expires_at, hardcoded_token,
           locked, waiters, clock, tcall,
           upc, fileExists, fileN, initRetry, finRetry, upload_key, index,
           pending_tasks, result, sem, reqTok, task,
           events, refreshedOk,
           initSent, finishSent, initForced, initAuthFails, init_res,
           partFaults, faulty, finForced, finAuthFails, fin_res,
           answers >>

hasherVars == << fed, hcall >>
ftsVars == << staged_files, fclock, registered, served, fret >>

driveVars == << rs, cf, plug >>

vars == << uploadVars, calc, sha1, hasherVars, ftsVars, driveVars >>

Cur ==
  [ access_token |-> access_token, expires_at |-> expires_at,
    hardcoded_token |-> hardcoded_token,
    locked |-> locked, waiters |-> waiters, clock |-> clock, tcall |-> tcall,
    upc |-> upc, fileExists |-> fileExists, fileN |-> fileN,
    initRetry |-> initRetry, finRetry |-> finRetry,
    upload_key |-> upload_key, index |-> index,
    pending_tasks |-> pending_tasks, result |-> result, sem |-> sem,
    reqTok |-> reqTok, task |-> task,
    events |-> events, refreshedOk |-> refreshedOk,
    initSent |-> initSent, finishSent |-> finishSent,
    initForced |-> initForced, initAuthFails |-> initAuthFails,
    init_res |-> init_res, partFaults |-> partFaults,
    faulty |-> faulty, finForced |-> finForced,
    finAuthFails |-> finAuthFails, fin_res |-> fin_res,
    answers |-> answers ]

\* The state a step starts from: events lists the get_token calls that
\* return during the step.
Now == [Cur EXCEPT !.events = << >>, !.answers = {}]

Commit(S) ==
  /\ access_token' = S.access_token
  /\ expires_at' = S.expires_at
  /\ hardcoded_token' = S.hardcoded_token
  /\ locked' = S.locked
  /\ waiters' = S.waiters
  /\ clock' = S.clock
  /\ tcall' = S.tcall
  /\ upc' = S.upc
  /\ fileExists' = S.fileExists
  /\ fileN' = S.fileN
  /\ initRetry' = S.initRetry
  /\ finRetry' = S.finRetry
  /\ upload_key' = S.upload_key
  /\ index' = S.index
  /\ pending_tasks' = S.pending_tasks
  /\ result' = S.result
  /\ sem' = S.sem
  /\ reqTok' = S.reqTok
  /\ task' = S.task
  /\ events' = S.events
  /\ refreshedOk' = S.refreshedOk
  /\ initSent' = S.initSent
  /\ finishSent' = S.finishSent
  /\ initForced' = S.initForced
  /\ initAuthFails' = S.initAuthFails
  /\ init_res' = S.init_res
  /\ partFaults' = S.partFaults
  /\ faulty' = S.faulty
  /\ finForced' = S.finForced
  /\ finAuthFails' = S.finAuthFails
  /\ fin_res' = S.fin_res
  /\ answers' = S.answers
  /\ UNCHANGED << calc, sha1, hasherVars, ftsVars, driveVars >>

IdleCall ==
  [ st |-> "idle", force |-> FALSE, site |-> "none", now |-> 0,
    behind |-> NoRefresh, waited |-> FALSE, why |-> None,
    tok0 |-> None, exp0 |-> 0, seeded |-> FALSE ]

NoTask == [ pc |-> "none", retry |-> 0, sent |-> 0, tok |-> None,
            ok |-> FALSE, rejected |-> None ]

\* ------------------------------------------------------------------------
\* SafeSHA1 (uploader.py lines 12-96)
\* ------------------------------------------------------------------------
\* A 32-bit word is the pair << high 16 bits, low 16 bits >>; a byte string
\* is a sequence of numbers 0..255; a hex string is a string.

Word(hi, lo) == << hi, lo >>

RECURSIVE BitAnd(_, _, _)
BitAnd(a, b, n) ==
  IF n = 0 THEN 0
  ELSE ((a % 2) * (b % 2)) + 2 * BitAnd(a \div 2, b \div 2, n - 1)

RECURSIVE BitXor(_, _, _)
BitXor(a, b, n) ==
  IF n = 0 THEN 0
  ELSE (((a % 2) + (b % 2)) % 2) + 2 * BitXor(a \div 2, b \div 2, n - 1)

\* Python's &, |, ^ and ~ on values below 2^32.
And32(x, y) == Word(BitAnd(x[1], y[1], 16), BitAnd(x[2], y[2], 16))
Xor32(x, y) == Word(BitXor(x[1], y[1], 16), BitXor(x[2], y[2], 16))
Or32(x, y) ==
  Word(x[1] + y[1] - BitAnd(x[1], y[1], 16),
       x[2] + y[2] - BitAnd(x[2], y[2], 16))
Not32(x) == Word(65535 - x[1], 65535 - x[2])

\* (x1 + ... + xn) & 0xffffffff
RECURSIVE SumHi(_)
SumHi(ws) == IF ws = << >> THEN 0 ELSE Head(ws)[1] + SumHi(Tail(ws))
RECURSIVE SumLo(_)
SumLo(ws) == IF ws = << >> THEN 0 ELSE Head(ws)[2] + SumLo(Tail(ws))
Add32(ws) ==
  LET lo == SumLo(ws)
  IN Word((SumHi(ws) + (lo \div 65536)) % 65536, lo % 65536)

\* Faulty variant: the rotation drops the bits shifted out at the top.
LeftRotate_ShiftOnly(n, b) ==
  LET m == IF b >= 16 THEN Word(n[2], 0) ELSE n
      c == IF b >= 16 THEN b - 16 ELSE b
  IN Word(((m[1] * (2 ^ c)) % 65536) + (m[2] \div (2 ^ (16 - c))),
          (m[2] * (2 ^ c)) % 65536)

\* _left_rotate, lines 22-23, for 0 < b < 32.
LeftRotate(n, b) ==
  LET m == IF b >= 16 THEN Word(n[2], n[1]) ELSE n
      c == IF b >= 16 THEN b - 16 ELSE b
  IN Word(((m[1] * (2 ^ c)) % 65536) + (m[2] \div (2 ^ (16 - c))),
          ((m[2] * (2 ^ c)) % 65536) + (m[1] \div (2 ^ (16 - c))))

\* struct.unpack('>I', four bytes), line 29.
UnpackBE(bs, k) == Word(bs[k] * 256 + bs[k + 1], bs[k + 2] * 256 + bs[k + 3])

\* Lines 28-32: the 80 words of the message schedule.
RECURSIVE Schedule(_)
Schedule(w) ==
  IF Len(w) = 80 THEN w
  ELSE LET i == Len(w) + 1
       IN Schedule(Append(w,
            LeftRotate(Xor32(Xor32(Xor32(w[i - 3], w[i - 8]), w[i - 14]),
                             w[i - 16]), 1)))

K1 == Word(23170, 31129)    \* 0x5A827999
K2 == Word(28377, 60321)    \* 0x6ED9EBA1
K3 == Word(36635, 48348)    \* 0x8F1BBCDC
K4 == Word(51810, 49622)    \* 0xCA62C1D6

\* Lines 37-48: f and k of round i (0-based).
RoundF(i, b, c, d) ==
  IF i <= 19 THEN Or32(And32(b, c), And32(Not32(b), d))
  ELSE IF i <= 39 THEN Xor32(Xor32(b, c), d)
  ELSE IF i <= 59 THEN Or32(Or32(And32(b, c), And32(b, d)), And32(c, d))
  ELSE Xor32(Xor32(b, c), d)

RoundK(i) ==
  IF i <= 19 THEN K1 ELSE IF i <= 39 THEN K2 ELSE IF i <= 59 THEN K3 ELSE K4

\* Lines 36-55: rounds i..79 on the working registers v = <<a, b, c, d, e>>
\* (the test on v has TLC compute the registers round by round).
RECURSIVE Rounds(_, _, _)
Rounds(i, v, w) ==
  IF i = 80 \/ v = << >> THEN v
  ELSE LET temp == Add32(<< LeftRotate(v[1], 5), RoundF(i, v[2], v[3], v[4]),
                            v[5], RoundK(i), w[i + 1] >>)
       IN Rounds(i + 1, << temp, v[1], LeftRotate(v[2], 30), v[3], v[4] >>, w)

\* _process_chunk, lines 25-61: the registers after the 64-byte chunk.
ProcessChunk(h, chunk) ==
  LET w == Schedule([i \in 1..16 |-> UnpackBE(chunk, 4 * (i - 1) + 1)])
      v == Rounds(0, h, w)
  IN [j \in 1..5 |-> Add32(<< h[j], v[j] >>)]

\* Lines 66-68 and 93-94: process the buffer 64 bytes at a time.
RECURSIVE Drain(_, _)
Drain(h, buf) ==
  IF Len(buf) < 64 THEN [h |-> h, buffer |-> buf]
  ELSE Drain(ProcessChunk(h, SubSeq(buf, 1, 64)), SubSeq(buf, 65, Len(buf)))

\* SafeSHA1.__init__, lines 17-20.
NewSHA1 ==
  [ h |-> << Word(26437, 8961), Word(61389, 43913), Word(39098, 56574),
             Word(4146, 21622), Word(50130, 57840) >>,
    buffer |-> << >>,
    message_byte_length |-> 0 ]

\* Faulty variant: the bytes buffered by earlier calls are dropped.
Update_DropBuffer(sha, data) ==
  LET d == Drain(sha.h, data)
  IN [ h |-> d.h, buffer |-> d.buffer,
       message_byte_length |-> sha.message_byte_length + Len(data) ]

\* SafeSHA1.update, lines 63-68.
Update(sha, data) ==
  LET d == Drain(sha.h, sha.buffer \o data)
  IN [ h |-> d.h, buffer |-> d.buffer,
       message_byte_length |-> sha.message_byte_length + Len(data) ]

HexDigits == "0123456789abcdef"
HexChar(n) == SubSeq(HexDigits, n + 1, n + 1)
HexByte(b) == HexChar(b \div 16) \o HexChar(b % 16)

RECURSIVE HexOf(_)
\* bytes.hex()
HexOf(bs) == IF bs = << >> THEN "" ELSE HexByte(Head(bs)) \o HexOf(Tail(bs))

\* struct.pack('<I', x), line 74.
PackLE(x) == << x[2] % 256, x[2] \div 256, x[1] % 256, x[1] \div 256 >>

\* '{:08x}'.format(x), line 96.
Format08x(x) ==
  HexByte(x[1] \div 256) \o HexByte(x[1] % 256)
    \o HexByte(x[2] \div 256) \o HexByte(x[2] % 256)

\* Faulty variant: the registers are exported most significant byte first.
GetStateHex_BigEndian(sha) ==
  Format08x(sha.h[1]) \o Format08x(sha.h[2]) \o Format08x(sha.h[3])
    \o Format08x(sha.h[4]) \o Format08x(sha.h[5])

\* SafeSHA1.get_state_hex, lines 70-74.
GetStateHex(sha) ==
  HexOf(PackLE(sha.h[1]) \o PackLE(sha.h[2]) \o PackLE(sha.h[3])
          \o PackLE(sha.h[4]) \o PackLE(sha.h[5]))

\* Lines 84-85: zero bytes until (len + 8) % 64 = 0.
RECURSIVE PadZeros(_)
PadZeros(buf) ==
  IF (Len(buf) + 8) % 64 = 0 THEN buf ELSE PadZeros(Append(buf, 0))

\* struct.pack('>Q', n), line 88, for n < 2^31.
PackQ(n) ==
  << 0, 0, 0, 0, n \div 16777216, (n \div 65536) % 256, (n \div 256) % 256,
     n % 256 >>

\* Lines 80-94 of final_hex: the registers of temp_runner after the padded
\* buffer.
FinalRegisters(sha) ==
  LET final_buff == PadZeros(Append(sha.buffer, 128))
                      \o PackQ(sha.message_byte_length * 8)
  IN Drain(sha.h, final_buff).h

\* Faulty variant: line 80 without the copy, final_h is the list self._h.
FinalHList_Alias == "self_h"

\* Lines 80 and 91: the list temp_runner._h refers to is final_h, the copy
\* list(self._h).
FinalHList == "final_h"

\* SafeSHA1.final_hex, lines 76-96, called on the object sha: the string it
\* returns and the object after the call. lists holds the content of the
\* two list objects; _process_chunk stores the registers into the list
\* temp_runner._h in place (lines 57-61). self._buffer is a bytes value,
\* which line 83 cannot change, and _message_byte_length is only read.
FinalHexCall(sha) ==
  LET lists == [self_h |-> sha.h, final_h |-> sha.h]
      after == [lists EXCEPT ![FinalHList] =
                  FinalRegisters([sha EXCEPT !.h = lists[FinalHList]])]
      h == after[FinalHList]
  IN [ ret |-> Format08x(h[1]) \o Format08x(h[2]) \o Format08x(h[3])
                 \o Format08x(h[4]) \o Format08x(h[5]),
       self |-> [sha EXCEPT !.h = after.self_h] ]

\* The string final_hex returns.
FinalHex(sha) == FinalHexCall(sha).ret

\* SafeSHA1.get_state_hex called on the object sha: the string it returns
\* and the object after the call (the generator of line 74 only reads).
GetStateHexCall(sha) == [ret |-> GetStateHex(sha), self |-> sha]

\* ------------------------------------------------------------------------
\* WeDriveUploader.calculate_block_shas (uploader.py lines 107-139)
\* ------------------------------------------------------------------------

\* The files: a missing file, or len bytes of a pattern.
Patterns == {"abc", "inc", "ff"}
FileLens == {0, 1, 3, 55, 56, 57, 63, 64, 65, 119, 120, 121, 127, 128, 129}
Files ==
  {[exists |-> FALSE, pat |-> "abc", len |-> 0]}
    \cup [exists : {TRUE}, pat : Patterns, len : FileLens]

\* Byte k (0-based) of a pattern.
PatByte(pat, k) ==
  CASE pat = "abc" -> 97 + (k % 3)
    [] pat = "inc" -> k % 256
    [] OTHER -> 255

\* f.read(n) at position pos of the file.
ReadBytes(file, pos, n) ==
  LET m == IF pos + n > file.len THEN file.len - pos ELSE n
  IN [k \in 1..m |-> PatByte(file.pat, pos + k - 1)]

IdleCalc ==
  [ pc |-> "idle", file |-> [exists |-> FALSE, pat |-> "abc", len |-> 0],
    file_size |-> 0, pos |-> 0, block_shas |-> << >>, kinds |-> << >>,
    ret |-> None ]

\* ------------------------------------------------------------------------
\* FileTokenService (astrbot/core/file_token_service.py)
\* ------------------------------------------------------------------------

\* The values uuid4 returns, the registered paths, the timeout argument of
\* register_file (<< >> stands for None) and the step of time.time().
Tokens == 1..MaxTokens
FtsPaths == {"f", "g"}
FtsTickLen == default_timeout \div 2
Timeouts == {<< >>, << 0 >>, << FtsTickLen >>}

\* staged_files = {}, line 14.
NoTokens == [t \in {} |-> [path |-> "f", expire |-> 0]]
NoFtsCall == [op |-> "none", token |-> 0, ret |-> None, now |-> 0]

\* The hasher before any update call, and no call made yet. hcall is the
\* last call on the object: its name, the string it returned, and whether
\* the call before it was the same one.
NothingFed == [pat |-> "abc", n |-> 0]
NoHasherCall == [op |-> "none", ret |-> "", again |-> FALSE]

\* recursive_search before its call: request_count, the number of folders
\* in queue, and the page of the current folder (start = page * limit).
NoSearch == [pc |-> "idle", request_count |-> 0, queue |-> 0, page |-> 0]
\* create_folder_by_path before its call: the path has n components, of
\* which the first existing are folders on the drive; i is the component at
\* hand, page the page asked for, creates the file_create requests sent,
\* fresh whether the current parent is a folder this call created.
NoCreate ==
  [pc |-> "idle", n |-> 0, existing |-> 0, i |-> 0, page |-> 0,
   creates |-> 0, fresh |-> FALSE, ret |-> None]
\* A delete command that has not arrived: admin tells whether its sender is
\* in the admins list, initRet is what _init_recycle_bin returned to it
\* ("nocall" before), initSet whether recycle_bin_id was set at that return,
\* mutating the folder creations, moves and deletions requested for it.
Cmds == 1..NumCmds

\* WeDriveUploaderPlugin.__init__, main.py lines 21-22, with its commands.
NewPlugin ==
  [recycle_bin_id |-> None, init_locked |-> FALSE, init_waiters |-> << >>,
   cmd |-> [c \in Cmds |->
             [pc |-> "idle", admin |-> FALSE, initRet |-> "nocall",
              initSet |-> FALSE, mutating |-> 0]]]

Init ==
  /\ hardcoded_token \in {None, HardcodedToken}
  /\ access_token = hardcoded_token
  /\ expires_at = 0
  /\ locked = FALSE
  /\ waiters = << >>
  /\ clock = TickLen
  /\ tcall = [p \in Procs |-> IdleCall]
  /\ upc = "idle"
  /\ fileExists = FALSE
  /\ fileN = 0
  /\ initRetry = 0
  /\ finRetry = 0
  /\ upload_key = None
  /\ index = 1
  /\ pending_tasks = {}
  /\ result = None
  /\ sem = MAX_CONCURRENT_UPLOADS
  /\ reqTok = None
  /\ task = [i \in Tasks |-> NoTask]
  /\ events = << >>
  /\ refreshedOk = FALSE
  /\ initSent = 0
  /\ finishSent = 0
  /\ initForced = 0
  /\ initAuthFails = 0
  /\ init_res = None
  /\ partFaults = 0
  /\ faulty = {}
  /\ finForced = 0
  /\ finAuthFails = 0
  /\ fin_res = None
  /\ answers = {}
  /\ calc = IdleCalc
  /\ sha1 = NewSHA1
  /\ fed = NothingFed
  /\ hcall = NoHasherCall
  /\ staged_files = NoTokens
  /\ fclock = 0
  /\ registered = NoTokens
  /\ served = [t \in Tokens |-> 0]
  /\ fret = NoFtsCall
  /\ rs = NoSearch
  /\ cf = NoCreate
  /\ plug = NewPlugin

\* ------------------------------------------------------------------------
\* TokenManager.get_token / _do_refresh
\* ------------------------------------------------------------------------

\* Faulty variant: the freshness tests compare the clock with the expiry
\* time, without the margin.
CacheHit_NoMargin(force, tok, exp, now) ==
  \/ /\ ~force
     /\ tok # None
     /\ IF exp > 0 THEN now < exp ELSE TRUE
  \/ /\ force
     /\ exp > 0
     /\ now < exp

\* Faulty variant: the freshness test of line 26 asks for twice the margin.
CacheHit_WideMargin(force, tok, exp, now) ==
  \/ /\ ~force
     /\ tok # None
     /\ IF exp > 0 THEN now + Margin * 2 < exp ELSE TRUE
  \/ /\ force
     /\ exp > 0
     /\ now + Margin < exp

\* Faulty variant: a token of unknown expiry (expires_at = 0) is treated as stale.
CacheHit_SeedStale(force, tok, exp, now) ==
  \/ /\ ~force
     /\ tok # None
     /\ exp > 0
     /\ now + Margin < exp
  \/ /\ force
     /\ exp > 0
     /\ now + Margin < exp

\* get_token lines 23-34: the two tests that answer from the cache.
CacheHit(force, tok, exp, now) ==
  \/ /\ ~force
     /\ tok # None
     /\ IF exp > 0 THEN now + Margin < exp ELSE TRUE
  \/ /\ force
     /\ exp > 0
     /\ now + Margin < exp

RECURSIVE ReturnToken(_, _, _, _)

\* get_token lines 19-37, run by p right after it got the lock.
GetTokenBody(S, p) ==
  LET c == S.tcall[p]
      S0 == IF c.site # "client"
            THEN [S EXCEPT !.tcall[p].now = S.clock]
            ELSE [S EXCEPT !.tcall[p].now = S.clock,
                           !.tcall[p].tok0 = S.access_token,
                           !.tcall[p].exp0 = S.expires_at,
                           !.tcall[p].seeded =
                               (S.hardcoded_token # None /\ ~S.refreshedOk)]
  IN IF CacheHit(c.force, S.access_token, S.expires_at, S.clock)
     THEN ReturnToken([S0 EXCEPT !.locked = FALSE], p, S.access_token, FALSE)
     ELSE [S0 EXCEPT !.locked = TRUE,
                     !.tcall[p].st = "refresh"]

\* Faulty variant: get_token does not take the lock.
GetTokenCall_NoLock(S, p, force, site, why) ==
  LET S1 == [S EXCEPT !.tcall[p] =
                [IdleCall EXCEPT !.st = "wait", !.force = force,
                                 !.site = site, !.why = why],
                       !.initForced = IF force /\ site = "init_force"
                                      THEN @ + 1 ELSE @,
                       !.finForced = IF force /\ site = "fin_force"
                                     THEN @ + 1 ELSE @]
  IN GetTokenBody(S1, p)

\* get_token line 18: asyncio.Lock.acquire, immediate when the lock is free
\* and nobody waits, FIFO queue otherwise.
GetTokenCall(S, p, force, site, why) ==
  LET S1 == [S EXCEPT !.tcall[p] =
                [IdleCall EXCEPT !.st = "wait", !.force = force,
                                 !.site = site, !.why = why],
                       !.initForced = IF force /\ site = "init_force"
                                      THEN @ + 1 ELSE @,
                       !.finForced = IF force /\ site = "fin_force"
                                     THEN @ + 1 ELSE @]
  IN IF ~S.locked /\ S.waiters = << >>
     THEN GetTokenBody(S1, p)
     ELSE [S1 EXCEPT !.waiters = Append(@, p)]

\* _do_refresh lines 45-62 for each way the refresh request can end:
\*   ok       errcode 0, token and lifetime stored, callback returns
\*   cb_raise errcode 0, token and lifetime stored, save_token_callback raises
\*   bad_ttl  errcode 0, token stored, expires_in is not a number (line 48)
\*   err      errcode # 0
\*   exc      the request or the JSON decoding raises
RefreshOutcomes == {"ok", "cb_raise", "bad_ttl", "err", "exc"}

RefreshToken(S, outcome, newtok) ==
  IF outcome \in {"ok", "cb_raise", "bad_ttl"} THEN newtok ELSE S.access_token

RefreshExpiry(S, outcome, now, ttl) ==
  IF outcome \in {"ok", "cb_raise"} THEN now + ttl ELSE S.expires_at

RefreshReturn(outcome, newtok) ==
  IF outcome = "ok" THEN newtok ELSE None

DoRefresh(S, p, outcome, newtok, ttl) ==
  LET c == S.tcall[p]
      ret == RefreshReturn(outcome, newtok)
      S1 == [S EXCEPT
               !.access_token = RefreshToken(S, outcome, newtok),
               !.expires_at = RefreshExpiry(S, outcome, c.now, ttl),
               !.refreshedOk = @ \/ outcome \in {"ok", "cb_raise", "bad_ttl"},
               !.locked = FALSE,
               !.tcall = [q \in Procs |->
                  IF S.tcall[q].st = "wait" /\ S.tcall[q].site = "client"
                  THEN [S.tcall[q] EXCEPT
                          !.behind = IF @ = NoRefresh /\ c.force
                                     THEN ret ELSE @,
                          !.waited = @ \/ outcome = "ok"]
                  ELSE S.tcall[q]]]
  IN ReturnToken(S1, p, ret, TRUE)

\* ------------------------------------------------------------------------
\* WeDriveUploader.upload_file and upload_part_task
\* ------------------------------------------------------------------------

\* A return statement of upload_file (or an exception leaving it).
ReturnUpload(S, res) == [S EXCEPT !.upc = "done", !.result = res]

\* upload_file lines 197-210: token check and the Initiate request.
ContInitGet(S, tok) ==
  IF tok = None
  THEN ReturnUpload(S, None)
  ELSE [S EXCEPT !.upc = "init_post", !.reqTok = tok, !.initSent = @ + 1]

\* Faulty variant: the Initiate loop runs three times.
InitLoopTop_Three(S) ==
  IF S.initRetry < InitAttempts + 1
  THEN GetTokenCall([S EXCEPT !.upc = "await_token"], MainProc, FALSE,
                    "init_get", None)
  ELSE ReturnUpload(S, None)

\* upload_file lines 195-196 and 231: top of the Initiate loop.
InitLoopTop(S) ==
  IF S.initRetry < InitAttempts
  THEN GetTokenCall([S EXCEPT !.upc = "await_token"], MainProc, FALSE,
                    "init_get", None)
  ELSE ReturnUpload(S, None)

\* upload_file line 226: continue after the forced refresh.
ContInitForce(S, tok) == InitLoopTop([S EXCEPT !.initRetry = @ + 1])

\* upload_file lines 265-267: the Finish request (the token is not tested).
ContFinGet(S, tok) ==
  [S EXCEPT !.upc = "fin_post", !.reqTok = tok, !.finishSent = @ + 1]

\* Faulty variant: the Finish loop runs three times.
FinishLoopTop_Three(S) ==
  IF S.finRetry < FinishAttempts + 1
  THEN GetTokenCall([S EXCEPT !.upc = "await_token"], MainProc, FALSE,
                    "fin_get", None)
  ELSE ReturnUpload(S, None)

\* upload_file lines 264-265 and 280: top of the Finish loop.
FinishLoopTop(S) ==
  IF S.finRetry < FinishAttempts
  THEN GetTokenCall([S EXCEPT !.upc = "await_token"], MainProc, FALSE,
                    "fin_get", None)
  ELSE ReturnUpload(S, None)

\* upload_file line 276: continue after the forced refresh.
ContFinForce(S, tok) == FinishLoopTop([S EXCEPT !.finRetry = @ + 1])

\* upload_file lines 259-260: after the read loop.
AfterReadLoop(S) ==
  IF S.pending_tasks # {}
  THEN [S EXCEPT !.upc = "wait_all"]
  ELSE FinishLoopTop(S)

RECURSIVE ReadLoop_NoWait(_)
\* Faulty variant: the read loop creates every task before it waits.
ReadLoop_NoWait(S) ==
  IF S.index > S.fileN
  THEN AfterReadLoop(S)
  ELSE ReadLoop_NoWait([S EXCEPT
         !.task[S.index] = [NoTask EXCEPT !.pc = "created"],
         !.pending_tasks = @ \cup {S.index},
         !.index = @ + 1])

RECURSIVE ReadLoop(_)
\* upload_file lines 241-257: read a block, create its task, wait when
\* MAX_CONCURRENT_UPLOADS tasks are pending. Block index > fileN reads b''.
ReadLoop(S) ==
  IF S.index > S.fileN
  THEN AfterReadLoop(S)
  ELSE LET S1 == [S EXCEPT !.task[S.index] = [NoTask EXCEPT !.pc = "created"],
                           !.pending_tasks = @ \cup {S.index}]
       IN IF Cardinality(S1.pending_tasks) >= MAX_CONCURRENT_UPLOADS
          THEN [S1 EXCEPT !.upc = "wait_first"]
          ELSE ReadLoop([S1 EXCEPT !.index = @ + 1])

\* upload_part_task: a return statement inside "async with sem".
TaskReturn(S, i, ok) ==
  LET exhausted == S.task[i].retry = PartAttempts
  IN [S EXCEPT !.task[i] = [NoTask EXCEPT
                              !.pc = "done", !.ok = ok,
                              !.retry = IF exhausted THEN PartAttempts ELSE 0,
                              !.sent = IF exhausted THEN S.task[i].sent ELSE 0],
               !.sem = @ + 1]

\* upload_part_task lines 156-163: token check and the upload-part request.
\* Once upload_file has returned, its ClientSession is closed: session.post
\* raises at once and the task goes to the sleep of line 177.
ContPartGet(S, i, tok) ==
  IF tok = None
  THEN TaskReturn(S, i, FALSE)
  ELSE IF S.upc = "done"
  THEN [S EXCEPT !.task[i].pc = "sleeping", !.partFaults = @ + 1,
                 !.faulty = @ \cup {i}]
  ELSE [S EXCEPT !.task[i].pc = "posting", !.task[i].tok = tok,
                 !.task[i].sent = @ + 1]

\* Faulty variant: the retry loop runs six times.
PartLoopTop_Six(S, i) ==
  IF S.task[i].retry < PartAttempts + 1
  THEN GetTokenCall([S EXCEPT !.task[i].pc = "await_token"], i, FALSE,
                    "part_get", None)
  ELSE TaskReturn(S, i, FALSE)

\* upload_part_task lines 154-155 and 179-180: top of the retry loop.
PartLoopTop(S, i) ==
  IF S.task[i].retry < PartAttempts
  THEN GetTokenCall([S EXCEPT !.task[i].pc = "await_token"], i, FALSE,
                    "part_get", None)
  ELSE TaskReturn(S, i, FALSE)

\* upload_part_task line 171: sleep after the forced refresh.
ContPartForce(S, i, tok, why) ==
  [S EXCEPT !.task[i].pc = "sleeping_auth",
            !.task[i].rejected = IF tok = None THEN None ELSE why]

\* A caller outside the upload gets its token.
ContClient(S, p, tok) == S

\* The statement after "await get_token(...)" at each call site.
Cont(S, p, c, tok) ==
  CASE c.site = "init_get" -> ContInitGet(S, tok)
    [] c.site = "init_force" -> ContInitForce(S, tok)
    [] c.site = "fin_get" -> ContFinGet(S, tok)
    [] c.site = "fin_force" -> ContFinForce(S, tok)
    [] c.site = "part_get" -> ContPartGet(S, p, tok)
    [] c.site = "part_force" -> ContPartForce(S, p, tok, c.why)
    [] OTHER -> ContClient(S, p, tok)

\* get_token returns tok to its caller; issued tells whether this call made
\* the refresh request.
ReturnToken(S, p, tok, issued) ==
  LET c == S.tcall[p]
      S1 == [S EXCEPT
               !.tcall[p] = IdleCall,
               !.events = IF c.site # "client" THEN @ ELSE Append(@,
                            [ p |-> p, force |-> c.force, site |-> c.site,
                              issued |-> issued, ret |-> tok,
                              behind |-> c.behind, waited |-> c.waited,
                              seeded |-> c.seeded,
                              tok0 |-> c.tok0, exp0 |-> c.exp0, now |-> c.now,
                              tok1 |-> S.access_token,
                              exp1 |-> S.expires_at ])]
  IN Cont(S1, p, c, tok)


\* ------------------------------------------------------------------------
\* Actions of the TokenManager
\* ------------------------------------------------------------------------

\* Lock.release woke the first waiter: it takes the lock and runs get_token.
LockGranted(p) ==
  /\ ~locked
  /\ waiters # << >>
  /\ Head(waiters) = p
  /\ Commit(GetTokenBody([Now EXCEPT !.waiters = Tail(@)], p))

\* The identity endpoint answers (or the request fails) for the holder p.
RefreshResponse(p, outcomes, toks, ttls) ==
  /\ tcall[p].st = "refresh"
  /\ \E outcome \in outcomes, newtok \in toks, ttl \in ttls :
       /\ Commit(DoRefresh(Now, p, outcome, newtok, ttl))

\* time.time() advances.
Tick ==
  /\ clock < TickLen * (MaxTicks + 1)
  /\ Commit([Now EXCEPT !.clock = @ + TickLen])

\* A coroutine outside the upload calls get_token(force_refresh=force).
ClientCall(p, force) ==
  /\ p \in Clients
  /\ tcall[p].st = "idle"
  /\ Commit(GetTokenCall(Now, p, force, "client", None))

\* ------------------------------------------------------------------------
\* Actions of upload_file
\* ------------------------------------------------------------------------

\* upload_file(file_path) is called; line 187 hands hashing to a thread.
UploadFile(exists, n) ==
  /\ upc = "idle"
  /\ Commit([Now EXCEPT !.upc = "hashing", !.fileExists = exists,
                        !.fileN = IF exists THEN n ELSE 0])

\* Faulty variant: line 188 tests the block list against None only, so the
\* empty list of an empty file passes.
HashDone_NoneOnly ==
  /\ upc = "hashing"
  /\ Commit(IF ~fileExists
            THEN ReturnUpload(Now, None)
            ELSE InitLoopTop(Now))

\* Faulty variant: the result of calculate_block_shas is not tested.
HashDone_NoTest ==
  /\ upc = "hashing"
  /\ Commit(InitLoopTop(Now))

\* calculate_block_shas returned (lines 113-115, 139); line 188.
HashDone ==
  /\ upc = "hashing"
  /\ Commit(IF ~fileExists \/ fileN = 0
            THEN ReturnUpload(Now, None)
            ELSE InitLoopTop(Now))

\* The answer r to request number sent of a phase (of block i at the parts)
\* is handled in this step.
Answered(S, phase, i, r, sent) ==
  [S EXCEPT !.answers = {[phase |-> phase, i |-> i, r |-> r, sent |-> sent]}]

InitResponses == {"hit", "key", "nokey", "auth", "other", "exc"}

\* Faulty variant: hit_exist is ignored and the parts are uploaded.
InitAnswer_IgnoreHit(S0, r) ==
  LET S == [S0 EXCEPT !.reqTok = None]
  IN CASE r \in {"hit", "key"} -> ReadLoop([S EXCEPT !.upload_key = "key"])
       [] r = "nokey" -> ReturnUpload(S, Raised)
       [] r = "auth" ->
            GetTokenCall([S EXCEPT !.upc = "await_token"],
                         MainProc, TRUE, "init_force", S0.reqTok)
       [] OTHER -> ReturnUpload(S, None)

\* Faulty variant: an authorization failure retries without forcing a refresh.
InitAnswer_NoForce(S0, r) ==
  LET S == [S0 EXCEPT !.reqTok = None]
  IN CASE r = "hit" -> ReturnUpload(S, "fid_hit")
       [] r = "key" -> ReadLoop([S EXCEPT !.upload_key = "key"])
       [] r = "nokey" -> ReturnUpload(S, Raised)
       [] r = "auth" -> InitLoopTop([S EXCEPT !.initRetry = @ + 1])
       [] OTHER -> ReturnUpload(S, None)

\* Faulty variant: every non-zero errcode is retried like an authorization
\* failure.
InitAnswer_RetryOther(S0, r) ==
  LET S == [S0 EXCEPT !.reqTok = None]
  IN CASE r = "hit" -> ReturnUpload(S, "fid_hit")
       [] r = "key" -> ReadLoop([S EXCEPT !.upload_key = "key"])
       [] r = "nokey" -> ReturnUpload(S, Raised)
       [] r \in {"auth", "other"} ->
            GetTokenCall([S EXCEPT !.upc = "await_token"],
                         MainProc, TRUE, "init_force", S0.reqTok)
       [] OTHER -> ReturnUpload(S, None)

\* upload_file lines 210-229: the answer to Initiate.
InitAnswer(S0, r) ==
  LET S == [S0 EXCEPT !.reqTok = None]
  IN CASE r = "hit" -> ReturnUpload(S, "fid_hit")
       [] r = "key" -> ReadLoop([S EXCEPT !.upload_key = "key"])
       [] r = "nokey" -> ReturnUpload(S, Raised)
       [] r = "auth" ->
            GetTokenCall([S EXCEPT !.upc = "await_token"],
                         MainProc, TRUE, "init_force", S0.reqTok)
       [] OTHER -> ReturnUpload(S, None)

InitResponse(r) ==
  /\ upc = "init_post"
  /\ Commit(InitAnswer([Answered(Now, "init", 0, r, initSent) EXCEPT
                          !.init_res = r,
                          !.initAuthFails = IF r = "auth" THEN @ + 1 ELSE @],
                        r))

\* upload_file lines 251-257: asyncio.wait(FIRST_COMPLETED) returns.
WaitFirst(S) ==
  LET done == {i \in S.pending_tasks : S.task[i].pc = "done"}
      S1 == [S EXCEPT !.pending_tasks = @ \ done]
  IN IF \E d \in done : ~S.task[d].ok
     THEN ReturnUpload(S1, None)
     ELSE ReadLoop([S1 EXCEPT !.index = @ + 1])

WaitFirstWake ==
  /\ upc = "wait_first"
  /\ \E i \in pending_tasks : task[i].pc = "done"
  /\ Commit(WaitFirst(Now))

\* Faulty variant: the wait of line 260 returns with the first finished task.
WaitAllWake_FirstCompleted ==
  /\ upc = "wait_all"
  /\ \E i \in pending_tasks : task[i].pc = "done"
  /\ Commit(FinishLoopTop(Now))

\* upload_file line 260: asyncio.wait(pending_tasks) returns.
WaitAllWake ==
  /\ upc = "wait_all"
  /\ \A i \in pending_tasks : task[i].pc = "done"
  /\ Commit(FinishLoopTop(Now))

FinishResponses == {"ok", "auth", "other", "exc"}

\* upload_file lines 267-279: the answer to Finish.
FinishAnswer(S0, r) ==
  LET S == [S0 EXCEPT !.reqTok = None]
  IN CASE r = "ok" -> ReturnUpload(S, "fid")
       [] r = "auth" ->
            GetTokenCall([S EXCEPT !.upc = "await_token"],
                         MainProc, TRUE, "fin_force", S0.reqTok)
       [] r = "exc" -> ReturnUpload(S, Raised)
       [] OTHER -> ReturnUpload(S, None)

FinishResponse(r) ==
  /\ upc = "fin_post"
  /\ Commit(FinishAnswer([Answered(Now, "fin", 0, r, finishSent) EXCEPT
                            !.fin_res = r,
                            !.finAuthFails = IF r = "auth" THEN @ + 1 ELSE @],
                          r))

\* ------------------------------------------------------------------------
\* Actions of upload_part_task
\* ------------------------------------------------------------------------

\* The task created at line 245 starts: lines 146-155.
TaskStart(i) ==
  /\ task[i].pc = "created"
  /\ sem > 0
  /\ Commit(PartLoopTop([Now EXCEPT !.sem = @ - 1], i))

PartResponses == {"ok", "auth", "other", "exc"}

\* Faulty variant: another error code ends the task of the block.
PartAnswer_OtherFatal(S0, i, r) ==
  LET S == [S0 EXCEPT !.task[i].tok = None, !.task[i].rejected = None]
      sent == S0.task[i].tok
  IN CASE r = "ok" -> TaskReturn(S, i, TRUE)
       [] r = "auth" ->
            GetTokenCall([S EXCEPT !.task[i].pc = "await_token"],
                         i, TRUE, "part_force", sent)
       [] r = "other" -> TaskReturn(S, i, FALSE)
       [] OTHER -> [S EXCEPT !.task[i].pc = "sleeping"]

\* upload_part_task lines 163-177: the answer to an upload-part request.
PartAnswer(S0, i, r) ==
  LET S == [S0 EXCEPT !.task[i].tok = None, !.task[i].rejected = None]
      sent == S0.task[i].tok
  IN CASE r = "ok" -> TaskReturn(S, i, TRUE)
       [] r = "auth" ->
            GetTokenCall([S EXCEPT !.task[i].pc = "await_token"],
                         i, TRUE, "part_force", sent)
       [] r = "other" -> PartLoopTop([S EXCEPT !.task[i].retry = @ + 1], i)
       [] OTHER -> [S EXCEPT !.task[i].pc = "sleeping"]

\* The bounds on failed attempts: at most MaxPartFaults attempts fail, on at
\* most MaxFaultyBlocks blocks.
MayFail(i) ==
  /\ partFaults < MaxPartFaults
  /\ i \in faulty \/ Cardinality(faulty) < MaxFaultyBlocks

Failed(S, i) == [S EXCEPT !.partFaults = @ + 1, !.faulty = @ \cup {i}]

\* A request that is in flight when upload_file returns and closes its
\* ClientSession can only raise.
PartResponse(i, r) ==
  /\ task[i].pc = "posting"
  /\ upc = "done" => r = "exc"
  /\ r # "ok" => MayFail(i)
  /\ LET S == Answered(Now, "part", i, r, task[i].sent)
     IN Commit(PartAnswer(IF r # "ok" THEN Failed(S, i) ELSE S, i, r))

\* Faulty variant: the sleep after an authorization failure does not use up
\* one of the block's attempts.
SleepDone_AuthFree(i) ==
  /\ task[i].pc \in {"sleeping", "sleeping_auth"}
  /\ (upc = "done" /\ task[i].retry + 1 < PartAttempts) => MayFail(i)
  /\ Commit(PartLoopTop([Now EXCEPT !.task[i].retry =
                           IF task[i].pc = "sleeping" THEN @ + 1 ELSE @], i))

\* asyncio.sleep(1) of lines 171 and 177 is over: next loop iteration. After
\* upload_file has returned the next attempt fails at once.
SleepDone(i) ==
  /\ task[i].pc \in {"sleeping", "sleeping_auth"}
  /\ (upc = "done" /\ task[i].retry + 1 < PartAttempts) => MayFail(i)
  /\ Commit(PartLoopTop([Now EXCEPT !.task[i].retry = @ + 1], i))

\* ------------------------------------------------------------------------
\* Actions of calculate_block_shas
\* ------------------------------------------------------------------------

\* Lines 111-121: the call, up to the first read.
CalculateBlockShas(file) ==
  /\ calc.pc = "idle"
  /\ calc' = IF ~file.exists
             THEN [IdleCalc EXCEPT !.pc = "returned", !.file = file]
             ELSE [IdleCalc EXCEPT !.pc = "reading", !.file = file,
                                   !.file_size = file.len]
  /\ sha1' = NewSHA1
  /\ UNCHANGED << uploadVars, driveVars, hasherVars, ftsVars >>

\* Faulty variant: a block is the last one when it is shorter than a chunk.
IsLast_ShortRead(c, chunk) == Len(chunk) < ChunkSize

\* Line 129: f.tell() == file_size, after the read of chunk.
IsLast(c, chunk) == c.pos + Len(chunk) = c.file_size

\* Lines 122-139: one iteration of the read loop, or the return after it.
CalcStep ==
  /\ calc.pc = "reading"
  /\ LET chunk == ReadBytes(calc.file, calc.pos, ChunkSize)
         sha == Update(sha1, chunk)
         last == IsLast(calc, chunk)
         fin == FinalHexCall(sha)
     IN IF chunk = << >>
        THEN /\ calc' = [calc EXCEPT !.pc = "returned", !.ret = "block_shas"]
             /\ sha1' = sha1
        ELSE /\ calc' = [calc EXCEPT
                  !.pos = @ + Len(chunk),
                  !.block_shas = Append(@, IF last THEN fin.ret
                                                    ELSE GetStateHex(sha)),
                  !.kinds = Append(@, IF last THEN "final" ELSE "state")]
             /\ sha1' = IF last THEN fin.self ELSE sha
  /\ UNCHANGED << uploadVars, driveVars, hasherVars, ftsVars >>

\* ------------------------------------------------------------------------
\* Actions of FileTokenService. A call never suspends between taking and
\* releasing self.lock (the lock is free when "async with" is reached, and
\* _cleanup_expired_tokens has no await inside), so each call is one step.
\* ------------------------------------------------------------------------

\* Faulty variant: nothing is ever removed.
CleanupExpiredTokens_Keep(files, now) == files

\* _cleanup_expired_tokens, lines 17-24: staged_files without the tokens
\* with expire < now.
CleanupExpiredTokens(files, now) ==
  [t \in {u \in DOMAIN files : ~(files[u].expire < now)} |-> files[t]]

\* Lines 68-70: the expiry time of a registration made at time now.
ExpireTime(now, timeout) ==
  now + (IF timeout # << >> THEN timeout[1] ELSE default_timeout)

\* register_file, lines 59-73; exists is the answer of os.path.exists.
RegisterFile(path, timeout, exists) ==
  LET files == CleanupExpiredTokens(staged_files, fclock)
  IN IF ~exists
     THEN /\ staged_files' = files
          /\ fret' = [op |-> "register", token |-> 0,
                      ret |-> "FileNotFoundError", now |-> fclock]
          /\ UNCHANGED registered
     ELSE \E file_token \in Tokens \ DOMAIN registered :
            LET entry == [path |-> path,
                          expire |-> ExpireTime(fclock, timeout)]
            IN /\ staged_files' =
                    [t \in DOMAIN files \cup {file_token} |->
                       IF t = file_token THEN entry ELSE files[t]]
               /\ registered' =
                    [t \in DOMAIN registered \cup {file_token} |->
                       IF t = file_token
                       THEN [path |-> path, at |-> fclock,
                             timeout |-> timeout]
                       ELSE registered[t]]
               /\ fret' = [op |-> "register", token |-> file_token,
                           ret |-> "token", now |-> fclock]

\* handle_file, lines 89-98.
HandleFile(file_token, exists) ==
  LET files == CleanupExpiredTokens(staged_files, fclock)
      ret == IF file_token \notin DOMAIN files THEN "KeyError"
             ELSE IF ~exists THEN "FileNotFoundError"
             ELSE files[file_token].path
  IN /\ staged_files' = files
     /\ fret' = [op |-> "handle", token |-> file_token, ret |-> ret,
                 now |-> fclock]
     /\ served' = IF ret \in FtsPaths
                  THEN [served EXCEPT ![file_token] = @ + 1]
                  ELSE served

\* check_token_expired, lines 26-29.
CheckTokenExpired(file_token) ==
  LET files == CleanupExpiredTokens(staged_files, fclock)
  IN /\ staged_files' = files
     /\ fret' = [op |-> "check", token |-> file_token,
                 ret |-> IF file_token \notin DOMAIN files
                         THEN "True" ELSE "False",
                 now |-> fclock]

\* A call of register_file by any caller.
RegisterCall ==
  /\ \E path \in FtsPaths, timeout \in Timeouts, exists \in BOOLEAN :
       RegisterFile(path, timeout, exists)
  /\ UNCHANGED << uploadVars, driveVars, calc, sha1, hasherVars, fclock, served >>

\* A call of handle_file (FileRoute.serve_file hands it the token of the
\* URL, whatever it is).
HandleCall ==
  /\ \E file_token \in Tokens, exists \in BOOLEAN :
       /\ served[file_token] < MaxServes
       /\ HandleFile(file_token, exists)
  /\ UNCHANGED << uploadVars, driveVars, calc, sha1, hasherVars, fclock, registered >>

\* A call of check_token_expired.
CheckCall ==
  /\ \E file_token \in Tokens : CheckTokenExpired(file_token)
  /\ UNCHANGED << uploadVars, driveVars, calc, sha1, hasherVars, fclock, registered,
                  served >>

\* time.time() moves on.
FtsTick ==
  /\ fclock < MaxFtsTicks * FtsTickLen
  /\ fclock' = fclock + FtsTickLen
  /\ UNCHANGED << uploadVars, driveVars, calc, sha1, hasherVars, staged_files, registered,
                  served, fret >>

\* ------------------------------------------------------------------------
\* A SafeSHA1 object driven call by call
\* ------------------------------------------------------------------------

\* The lengths of the byte strings given to update, and the byte patterns.
UpdateLens == {7, 57, 64}
HasherPatterns == {"inc", "ff"}

\* SafeSHA1(): a new object, to be fed the bytes of pattern pat.
HasherNew(pat) ==
  /\ sha1' = NewSHA1
  /\ fed' = [pat |-> pat, n |-> 0]
  /\ hcall' = [op |-> "init", ret |-> "", again |-> FALSE]
  /\ UNCHANGED << uploadVars, driveVars, calc, ftsVars >>

\* update(data) with the next k bytes of the pattern.
HasherUpdate(k) ==
  /\ hcall.op # "none"
  /\ fed.n + k <= MaxFed
  /\ sha1' = Update(sha1, [j \in 1..k |-> PatByte(fed.pat, fed.n + j - 1)])
  /\ fed' = [fed EXCEPT !.n = @ + k]
  /\ hcall' = [op |-> "update", ret |-> "", again |-> hcall.op = "update"]
  /\ UNCHANGED << uploadVars, driveVars, calc, ftsVars >>

\* get_state_hex() on the object.
HasherGetStateHex ==
  /\ hcall.op # "none"
  /\ LET c == GetStateHexCall(sha1)
     IN /\ sha1' = c.self
        /\ hcall' = [op |-> "get_state_hex", ret |-> c.ret,
                      again |-> hcall.op = "get_state_hex"]
  /\ UNCHANGED << uploadVars, driveVars, calc, ftsVars, fed >>

\* final_hex() on the object.
HasherFinalHex ==
  /\ hcall.op # "none"
  /\ LET c == FinalHexCall(sha1)
     IN /\ sha1' = c.self
        /\ hcall' = [op |-> "final_hex", ret |-> c.ret,
                      again |-> hcall.op = "final_hex"]
  /\ UNCHANGED << uploadVars, driveVars, calc, ftsVars, fed >>

\* ------------------------------------------------------------------------
\* WeDriveUploader.recursive_search (uploader.py lines 283-343). Only what
\* decides the number of list_files calls is kept: how many folders wait in
\* the queue and whether a page came back full. The sleep of line 305 is
\* part of the step that makes the next call.
\* ------------------------------------------------------------------------

\* Line 297, the test of the outer loop, then lines 298-311: the next folder
\* is taken from the queue and its first page is asked for.
RsOuterLoop(r) ==
  IF r.queue > 0 /\ r.request_count < max_requests
  THEN [r EXCEPT !.pc = "listing", !.queue = @ - 1, !.page = 0,
                 !.request_count = @ + 1]
  ELSE [r EXCEPT !.pc = "done"]

\* recursive_search is called: lines 286-297.
RecursiveSearch ==
  /\ rs.pc = "idle"
  /\ rs' = RsOuterLoop([NoSearch EXCEPT !.queue = 1])
  /\ UNCHANGED << uploadVars, calc, sha1, hasherVars, ftsVars, cf, plug >>

\* list_files returns (lines 311-341): nothing ("none"), a page of fewer
\* than limit items ("short") or a page of limit items ("full"), with
\* folders of its items being folders.
SearchListAnswer(kind, folders) ==
  /\ rs.pc = "listing"
  /\ kind = "none" => folders = 0
  /\ kind = "full" => rs.page + 1 < MaxPages
  /\ rs.queue + folders <= MaxQueue
  /\ LET r == [rs EXCEPT !.queue = @ + folders]
     IN rs' = IF kind = "full"
              THEN [r EXCEPT !.page = @ + 1, !.request_count = @ + 1]
              ELSE RsOuterLoop(r)
  /\ UNCHANGED << uploadVars, calc, sha1, hasherVars, ftsVars, cf, plug >>

\* ------------------------------------------------------------------------
\* WeDriveUploader.create_folder_by_path (uploader.py lines 507-554)
\* ------------------------------------------------------------------------

\* Lines 517-524: the next component, or the return of line 554.
CfNextPart(c) ==
  IF c.i < c.n
  THEN [c EXCEPT !.pc = "listing", !.i = @ + 1, !.page = 0]
  ELSE [c EXCEPT !.pc = "done", !.ret = "id"]

\* create_folder_by_path(path_str) is called with a path of n components
\* on a drive where the first existing of them are folders.
CreateFolderByPath(n, existing) ==
  /\ cf.pc = "idle"
  /\ cf' = CfNextPart([NoCreate EXCEPT !.n = n, !.existing = existing])
  /\ UNCHANGED << uploadVars, calc, sha1, hasherVars, ftsVars, rs, plug >>

\* list_files returns (lines 524-538):
\*   fail   None: no token, an error code or a network exception
\*   found  a page holding the folder of the component
\*   full   a page of limit items without it
\*   short  a page of fewer items without it (an empty one included)
\* A folder that exists is on one of the pages, so its listing does not end
\* with a short page; a folder this call created is empty.
CfListAnswer(r) ==
  /\ cf.pc = "listing"
  /\ r = "found" => (cf.i <= cf.existing /\ ~cf.fresh)
  /\ r = "short" => (cf.i > cf.existing \/ cf.fresh)
  /\ r = "full" => (cf.page + 1 < MaxPages /\ ~cf.fresh)
  /\ cf' = CASE r = "found" -> CfNextPart(cf)
            [] r = "full" -> [cf EXCEPT !.page = @ + 1]
            [] OTHER -> [cf EXCEPT !.pc = "creating"]
  /\ UNCHANGED << uploadVars, calc, sha1, hasherVars, ftsVars, rs, plug >>

\* create_folder returns (lines 545-552): the new folder ("ok"), None after
\* a request that failed ("fail"), or None without a request because there
\* was no token ("notoken").
CfCreateAnswer(r) ==
  /\ cf.pc = "creating"
  /\ LET c == [cf EXCEPT !.creates = IF r = "notoken" THEN @ ELSE @ + 1]
     IN cf' = IF r = "ok" THEN CfNextPart([c EXCEPT !.fresh = TRUE])
              ELSE [c EXCEPT !.pc = "done", !.ret = None]
  /\ UNCHANGED << uploadVars, calc, sha1, hasherVars, ftsVars, rs, plug >>

\* ------------------------------------------------------------------------
\* WeDriveUploaderPlugin: the delete command of on_message (main.py lines
\* 400-418 and on) and _init_recycle_bin (lines 41-63)
\* ------------------------------------------------------------------------

\* Lines 413-418 and on: the admin test, then the deletion itself, which
\* sends a move or a delete request.
AdminCheck(P, c) ==
  IF P.cmd[c].admin
  THEN [P EXCEPT !.cmd[c].pc = "deleting", !.cmd[c].mutating = @ + 1]
  ELSE [P EXCEPT !.cmd[c].pc = "denied"]

\* _init_recycle_bin returns ret to command c and leaves "async with
\* self.init_lock"; lines 408-411 test the result.
InitReturn(P, c, ret) ==
  LET Q == [P EXCEPT !.init_locked = FALSE,
                     !.cmd[c].initRet = ret,
                     !.cmd[c].initSet = (P.recycle_bin_id # None)]
  IN IF ret = "True" THEN AdminCheck(Q, c)
     ELSE [Q EXCEPT !.cmd[c].pc = "init_failed"]

\* Lines 43-51, run by c once it holds init_lock: the bare return of line
\* 44 gives None, otherwise get_file_by_path is awaited.
InitBody(P, c) ==
  IF P.recycle_bin_id # None
  THEN InitReturn(P, c, "None")
  ELSE [P EXCEPT !.init_locked = TRUE, !.cmd[c].pc = "lookup"]

\* A delete command arrives (lines 400-411): with recycle_bin_id unset it
\* calls _init_recycle_bin and takes init_lock, at once when the lock is
\* free and nobody waits, in FIFO order otherwise.
DeleteCommand(c, admin) ==
  /\ plug.cmd[c].pc = "idle"
  /\ LET P == [plug EXCEPT !.cmd[c].admin = admin]
     IN plug' =
          IF P.recycle_bin_id # None THEN AdminCheck(P, c)
          ELSE IF ~P.init_locked /\ P.init_waiters = << >>
          THEN InitBody(P, c)
          ELSE [P EXCEPT !.cmd[c].pc = "init_wait",
                         !.init_waiters = Append(@, c)]
  /\ UNCHANGED << uploadVars, calc, sha1, hasherVars, ftsVars, rs, cf >>

\* The first waiter gets init_lock.
InitLockGranted(c) ==
  /\ ~plug.init_locked
  /\ plug.init_waiters # << >>
  /\ c = Head(plug.init_waiters)
  /\ plug' = InitBody([plug EXCEPT !.init_waiters = Tail(@)], c)
  /\ UNCHANGED << uploadVars, calc, sha1, hasherVars, ftsVars, rs, cf >>

\* get_file_by_path returns (lines 50-54): the recycle-bin folder, or
\* nothing, after which create_folder_by_path is awaited.
LookupAnswer(c, found) ==
  /\ plug.cmd[c].pc = "lookup"
  /\ plug' = IF found
             THEN InitReturn([plug EXCEPT !.recycle_bin_id = "rb"], c, "True")
             ELSE [plug EXCEPT !.cmd[c].pc = "create"]
  /\ UNCHANGED << uploadVars, calc, sha1, hasherVars, ftsVars, rs, cf >>

\* create_folder_by_path returns (lines 56-63) an id or None, having sent a
\* file_create request or not.
CreateAnswer(c, ok, sent) ==
  /\ plug.cmd[c].pc = "create"
  /\ LET P == [plug EXCEPT
                 !.cmd[c].mutating = IF sent THEN @ + 1 ELSE @,
                 !.recycle_bin_id = IF ok THEN "rb" ELSE @]
     IN plug' = InitReturn(P, c, IF ok THEN "True" ELSE "False")
  /\ UNCHANGED << uploadVars, calc, sha1, hasherVars, ftsVars, rs, cf >>

\* ------------------------------------------------------------------------
\* Specifications
\* ------------------------------------------------------------------------

\* One upload_file call with its part tasks, sharing the TokenManager. The
\* upload is short against the 600 s margin: the clock stands still, and a
\* token goes stale during the upload when its lifetime is within the margin.
\* The identity endpoint never hands out the token that is cached already.
UploadRefreshOutcomes == {"ok", "err", "exc"}
UploadExpiresIn == {Margin, DefaultExpiresIn}

Next ==
  \/ \E ex \in BOOLEAN, n \in 0..MaxBlocks : UploadFile(ex, n)
  \/ HashDone
  \/ \E r \in InitResponses : InitResponse(r)
  \/ WaitFirstWake
  \/ WaitAllWake
  \/ \E r \in FinishResponses : FinishResponse(r)
  \/ \E i \in Tasks : TaskStart(i)
  \/ \E i \in Tasks, r \in PartResponses : PartResponse(i, r)
  \/ \E i \in Tasks : SleepDone(i)
  \/ \E p \in Procs : LockGranted(p)
  \/ \E p \in Procs : RefreshResponse(p, UploadRefreshOutcomes,
                                        ServerTokens \ {access_token},
                                        UploadExpiresIn)

Spec == Init /\ [][Next]_vars

\* One upload_file call of a file of up to MaxPoolBlocks blocks with the
\* pre-seeded token in place. Initiate answers with an upload key; the part
\* tasks meet every kind of answer, and a forced refresh succeeds with the
\* default lifetime or fails with an errcode.
InitPool == Init /\ hardcoded_token = HardcodedToken

NextPool ==
  \/ \E n \in 1..MaxPoolBlocks : UploadFile(TRUE, n)
  \/ HashDone
  \/ InitResponse("key")
  \/ WaitFirstWake
  \/ WaitAllWake
  \/ \E r \in {"ok", "other"} : FinishResponse(r)
  \/ \E i \in Tasks : TaskStart(i)
  \/ \E i \in Tasks, r \in PartResponses : PartResponse(i, r)
  \/ \E i \in Tasks : SleepDone(i)
  \/ \E p \in Procs : LockGranted(p)
  \/ \E p \in Procs : RefreshResponse(p, {"ok", "err"},
                                        ServerTokens \ {access_token},
                                        {DefaultExpiresIn})

SpecPool == InitPool /\ [][NextPool]_vars

\* One upload_file call of a file of up to MaxBlocks blocks, pre-seeded
\* token in place, under fair scheduling: the event loop runs every
\* coroutine that can run, and every request that is in flight is answered
\* (weak fairness of each coroutine's steps). Initiate answers with an upload
\* key or with a success response that lacks one.
NextLive ==
  \/ \E n \in 1..MaxBlocks : UploadFile(TRUE, n)
  \/ HashDone
  \/ \E r \in {"key", "nokey"} : InitResponse(r)
  \/ WaitFirstWake
  \/ WaitAllWake
  \/ \E r \in FinishResponses : FinishResponse(r)
  \/ \E i \in Tasks : TaskStart(i)
  \/ \E i \in Tasks, r \in PartResponses : PartResponse(i, r)
  \/ \E i \in Tasks : SleepDone(i)
  \/ \E p \in Procs : LockGranted(p)
  \/ \E p \in Procs : RefreshResponse(p, {"ok", "err"},
                                        ServerTokens \ {access_token},
                                        {DefaultExpiresIn})

SpecLive == InitPool /\ [][NextLive]_vars /\ WF_vars(NextLive)

\* calculate_block_shas on each of the files.
NextSha ==
  \/ \E file \in Files : CalculateBlockShas(file)
  \/ CalcStep

InitSha == Init /\ hardcoded_token = None

SpecSha == InitSha /\ [][NextSha]_vars

\* One SafeSHA1 object and its caller.
NextHasher ==
  \/ \E pat \in HasherPatterns : HasherNew(pat)
  \/ \E k \in UpdateLens : HasherUpdate(k)
  \/ HasherGetStateHex
  \/ HasherFinalHex

InitHasher == Init /\ hardcoded_token = None

SpecHasher == InitHasher /\ [][NextHasher]_vars

\* One recursive_search call on any drive.
NextSearch ==
  \/ RecursiveSearch
  \/ \E kind \in {"none", "short", "full"}, folders \in 0..MaxQueue :
       SearchListAnswer(kind, folders)

\* The drive operations start from the constructed objects.
InitDrive == Init /\ hardcoded_token = None

SpecSearch == InitDrive /\ [][NextSearch]_vars

\* One create_folder_by_path call on any drive.
NextCreate ==
  \/ \E n \in 1..MaxParts, existing \in 0..MaxParts :
       existing <= n /\ CreateFolderByPath(n, existing)
  \/ \E r \in {"fail", "found", "full", "short"} : CfListAnswer(r)
  \/ \E r \in {"ok", "fail", "notoken"} : CfCreateAnswer(r)

SpecCreate == InitDrive /\ [][NextCreate]_vars

\* Delete commands of admins and others, handled concurrently.
NextPlugin ==
  \/ \E c \in Cmds, admin \in BOOLEAN : DeleteCommand(c, admin)
  \/ \E c \in Cmds : InitLockGranted(c)
  \/ \E c \in Cmds, found \in BOOLEAN : LookupAnswer(c, found)
  \/ \E c \in Cmds, ok \in BOOLEAN, sent \in BOOLEAN : CreateAnswer(c, ok, sent)

SpecPlugin == InitDrive /\ [][NextPlugin]_vars

\* Callers of one FileTokenService.
NextFts ==
  \/ RegisterCall
  \/ HandleCall
  \/ CheckCall
  \/ FtsTick

InitFts == Init /\ hardcoded_token = None

SpecFts == InitFts /\ [][NextFts]_vars

\* Concurrent get_token callers on one TokenManager.
NextToken ==
  \/ \E p \in Clients, force \in BOOLEAN : ClientCall(p, force)
  \/ \E p \in Procs : LockGranted(p)
  \/ \E p \in Procs : RefreshResponse(p, RefreshOutcomes, ServerTokens,
                                        ExpiresInSet)
  \/ Tick

SpecToken == Init /\ [][NextToken]_vars


\* ------------------------------------------------------------------------
\* Properties
\* ------------------------------------------------------------------------

\* The get_token calls of outside callers that returned in the last step.
Ev == {events[k] : k \in 1..Len(events)}

Exhausted(i) == task[i].pc = "done" /\ task[i].retry = PartAttempts
NoPartRequest == \A i \in Tasks : task[i].pc = "none"
MainInGetToken == tcall[MainProc].st # "idle"

\* C1: a forced caller that waited for the lock while another forced
\* caller's refresh request was in flight issues no refresh request of its
\* own and returns what that refresh returned (the new token, or None).
C1_Singleflight ==
  \A e \in Ev : (e.force /\ e.behind # NoRefresh) =>
                  (~e.issued /\ e.ret = e.behind)

\* C2: the attempt a part task sends after an authorization failure, when
\* its forced get_token call returned a token, carries a token other than
\* the rejected one.
C2_RetryWithRefreshedToken ==
  \A i \in Tasks : (task[i].pc = "posting" /\ task[i].rejected # None) =>
                     task[i].tok # task[i].rejected

\* C3: a forced get_token call answers from the cache, without a refresh
\* request, only if another caller completed a refresh while this call was
\* waiting for the lock.
C3_ForcedCacheOnlyAfterWait ==
  \A e \in Ev : (e.force /\ ~e.issued) => e.waited

\* C4: a non-forced get_token call that finds a cached token with more than
\* Margin seconds left issues no refresh request and returns that token.
C4_NoRedundantRefresh ==
  \A e \in Ev : (~e.force /\ e.tok0 # None /\ e.exp0 > 0
                  /\ e.now + Margin < e.exp0) =>
                  (~e.issued /\ e.ret = e.tok0)

C4_Witness ==
  \E e \in Ev : /\ ~e.force /\ e.tok0 # None /\ e.exp0 > 0
                /\ e.now + Margin < e.exp0 /\ e.ret = e.tok0

\* C5: when get_token returns None, access_token and expires_at are what
\* they were when the call took the lock.
C5_FailureLeavesCache ==
  \A e \in Ev : e.ret = None => (e.tok1 = e.tok0 /\ e.exp1 = e.exp0)

\* C6: while the hardcoded token is in place and the identity endpoint has
\* answered no refresh with errcode 0, a non-forced call returns the
\* hardcoded token without a refresh request and a forced call issues one.
C6_PreSeeded ==
  \A e \in Ev : e.seeded =>
     IF e.force THEN e.issued
     ELSE ~e.issued /\ e.ret = hardcoded_token /\ e.ret # None

C6_Witness ==
  \E e \in Ev : e.seeded /\ ~e.force /\ e.ret = HardcodedToken /\ e.exp0 = 0

\* C7: when a block task has used up its PartAttempts attempts, no Finish
\* request is sent and upload_file returns None.
C7_FailFast ==
  (\E i \in Tasks : Exhausted(i)) =>
     (finishSent = 0 /\ (upc = "done" => result = None))

\* C8: after an Initiate answer with hit_exist, upload_file has returned the
\* file id of that answer, and no upload-part and no Finish request is sent.
C8_DedupShortCircuit ==
  init_res = "hit" =>
     (upc = "done" /\ result = "fid_hit" /\ NoPartRequest /\ finishSent = 0)

C8_Witness == init_res = "hit" /\ upc = "done" /\ initSent > 0

C10_ThirdAttempt ==
  (initAuthFails = 2 /\ upc = "done" /\ access_token # None
     /\ CacheHit(FALSE, access_token, expires_at, clock)) => initSent = 3

\* C10 amended: two authorization failures at Initiate make exactly two
\* forced get_token calls, no third Initiate request is sent, and upload_file
\* returns None with no upload-part or Finish request.
C10_SecondFailureFatal ==
  (initAuthFails = 2 /\ ~MainInGetToken) =>
     /\ initForced = 2
     /\ initSent = 2
     /\ upc = "done"
     /\ result = None
     /\ NoPartRequest
     /\ finishSent = 0

C10_Witness ==
  /\ initAuthFails = 2 /\ initForced = 2 /\ upc = "done" /\ result = None
  /\ access_token # None
  /\ CacheHit(FALSE, access_token, expires_at, clock)

C12_PartAttemptsBounded ==
  \A i \in Tasks :
     /\ task[i].sent <= PartAttempts
     /\ task[i].retry <= PartAttempts
     /\ task[i].sent <= task[i].retry + 1
     /\ Exhausted(i) => ~task[i].ok
     /\ (task[i].retry = PartAttempts) => task[i].pc = "done"

C12_Witness ==
  \E i \in Tasks : Exhausted(i) /\ task[i].sent = PartAttempts /\ ~task[i].ok

\* Blocks whose upload-part request is in flight.
InFlight == {i \in Tasks : task[i].pc = "posting"}

\* Blocks that were read (their task exists) and whose task has not returned.
Outstanding == {i \in Tasks : task[i].pc \notin {"none", "done"}}

\* C13: at most 3 upload-part requests are in flight at any time.
C13_BoundedConcurrency == Cardinality(InFlight) <= 3

C13_Witness ==
  fileN > 3 /\ Cardinality(InFlight) = 3 /\ index > 3

\* C14: at most MAX_CONCURRENT_UPLOADS blocks are read and not yet uploaded;
\* while that many tasks are outstanding the read loop stands at its wait and
\* reads no further block.
C14_ReadLoopBounded ==
  /\ [](Cardinality(Outstanding) <= MAX_CONCURRENT_UPLOADS)
  /\ [][(Cardinality(Outstanding) = MAX_CONCURRENT_UPLOADS)
          => (Outstanding' \subseteq Outstanding)]_vars

C14_Witness ==
  /\ fileN > MAX_CONCURRENT_UPLOADS /\ index > MAX_CONCURRENT_UPLOADS
  /\ Cardinality(Outstanding) = MAX_CONCURRENT_UPLOADS
  /\ upc = "wait_first"

\* C15: at most FinishAttempts Finish requests are sent; an authorization
\* failure is followed by one forced get_token call and, the first time, by
\* a second request; errcode 0 makes upload_file return the file id; another
\* errcode, or a second authorization failure, makes it return None.
C15_FinishBounded ==
  /\ finishSent <= FinishAttempts
  /\ finForced = finAuthFails
  /\ (finAuthFails = 1 /\ ~MainInGetToken) =>
        finishSent = FinishAttempts
  /\ fin_res = "ok" => (upc = "done" /\ result = "fid")
  /\ fin_res = "other" => (upc = "done" /\ result = None)
  /\ (finAuthFails = FinishAttempts /\ ~MainInGetToken) =>
        (upc = "done" /\ result = None)

C15_Witness ==
  /\ finAuthFails = 1 /\ finishSent = FinishAttempts
  /\ fin_res = "ok" /\ result = "fid" /\ upc = "done"

\* C16: upload_file ends by returning a file id or None; no exception leaves
\* it.
C16_NoEscapingException == upc = "done" => result # Raised

\* C17: when the file does not exist, upload_file returns None after hashing
\* and no get_token call, Initiate, upload-part or Finish request is made.
C17_MissingFile ==
  (upc # "idle" /\ ~fileExists) =>
     /\ upc \in {"hashing", "done"}
     /\ upc = "done" => result = None
     /\ \A p \in Procs : tcall[p].st = "idle"
     /\ ~locked /\ access_token = hardcoded_token /\ expires_at = 0
     /\ initSent = 0 /\ finishSent = 0 /\ NoPartRequest

C17_Witness == ~fileExists /\ upc = "done" /\ result = None

\* The digests of a reference SHA-1 implementation (FIPS 180-4) for the
\* non-empty files.
ReferenceSHA1(pat, len) ==
  CASE pat = "abc" /\ len = 1 ->
         "86f7e437faa5a7fce15d1ddcb9eaeaea377667b8"
    [] pat = "abc" /\ len = 3 ->
         "a9993e364706816aba3e25717850c26c9cd0d89d"
    [] pat = "abc" /\ len = 55 ->
         "4effb98c293fd08a71836999f04d138e37ff0219"
    [] pat = "abc" /\ len = 56 ->
         "8fd0987f1845c411d8b54323a612be7538964334"
    [] pat = "abc" /\ len = 57 ->
         "f9d22f334d0ed7675181b2e28ff1ee2e768faa15"
    [] pat = "abc" /\ len = 63 ->
         "1ccc82318ae9865b3319ae9ec0da78935377a969"
    [] pat = "abc" /\ len = 64 ->
         "757aaa41f35070700a8103c6a602ee242e38be08"
    [] pat = "abc" /\ len = 65 ->
         "7787a2c9be8cdd3d415f4f0d55446d3f3f85340f"
    [] pat = "abc" /\ len = 119 ->
         "5960af1047ddca5cc722bd7bbbac41a25b49f6ba"
    [] pat = "abc" /\ len = 120 ->
         "d7023ba1c811b19c3d2f1bcc016fb6c02a8e5f4a"
    [] pat = "abc" /\ len = 121 ->
         "5b3d66fd9fbbd5723894dec55c186725f0d827ee"
    [] pat = "abc" /\ len = 127 ->
         "e2d01d9276a6e2e734d4507b6798087eee2a178a"
    [] pat = "abc" /\ len = 128 ->
         "951e2ee1a4784c0bb1c548a3d046a10f92c2fdef"
    [] pat = "abc" /\ len = 129 ->
         "fbf633468e3ac68f7fee361df781610f775a33cf"
    [] pat = "inc" /\ len = 1 ->
         "5ba93c9db0cff93f52b521d7420e43f6eda2784f"
    [] pat = "inc" /\ len = 3 ->
         "0c7a623fd2bbc05b06423be359e4021d36e721ad"
    [] pat = "inc" /\ len = 55 ->
         "8ae2d46729cfe68ff927af5eec9c7d1b66d65ac2"
    [] pat = "inc" /\ len = 56 ->
         "636e2ec698dac903498e648bd2f3af641d3c88cb"
    [] pat = "inc" /\ len = 57 ->
         "7cb1330f35244b57437539253304ea78a6b7c443"
    [] pat = "inc" /\ len = 63 ->
         "6d942da0c4392b123528f2905c713a3ce28364bd"
    [] pat = "inc" /\ len = 64 ->
         "c6138d514ffa2135bfce0ed0b8fac65669917ec7"
    [] pat = "inc" /\ len = 65 ->
         "69bd728ad6e13cd76ff19751fde427b00e395746"
    [] pat = "inc" /\ len = 119 ->
         "41c89d06001bab4ab78736b44efe7ce18ce6ae08"
    [] pat = "inc" /\ len = 120 ->
         "d3dbd653bd8597b7475321b60a36891278e6a04a"
    [] pat = "inc" /\ len = 121 ->
         "3723f8ab857804f89f80970e9fc88cf8f890adc2"
    [] pat = "inc" /\ len = 127 ->
         "89d7312a903f65cd2b3e34a975e55dbea9033353"
    [] pat = "inc" /\ len = 128 ->
         "e6434bc401f98603d7eda504790c98c67385d535"
    [] pat = "inc" /\ len = 129 ->
         "3352e41cc30b40ae80108970492b21014049e625"
    [] pat = "ff" /\ len = 1 ->
         "85e53271e14006f0265921d02d4d736cdc580b0b"
    [] pat = "ff" /\ len = 3 ->
         "78670e88a9c2c711124471d2f24a8dbc8ce5dba9"
    [] pat = "ff" /\ len = 55 ->
         "450732ec1ec8fc5594a29700e11c37f09622ed72"
    [] pat = "ff" /\ len = 56 ->
         "09cade8bfcfc501cb097636504dff46b39270658"
    [] pat = "ff" /\ len = 57 ->
         "4626bc66f7c21035a1acb3eabf3535445b191b42"
    [] pat = "ff" /\ len = 63 ->
         "b5419e99e3ea50f812d56149e29b6d7db7bfc70e"
    [] pat = "ff" /\ len = 64 ->
         "ffc6261e487efa8c7442069f71acfc4aa826993d"
    [] pat = "ff" /\ len = 65 ->
         "bf0822f91c1aeaee3a06c8a6c598b0229e7fb2f3"
    [] pat = "ff" /\ len = 119 ->
         "97b433c99a75e69bd8170ef41aacbfb370434b0d"
    [] pat = "ff" /\ len = 120 ->
         "b099d503d1c2bdf6defb88f6368bde6a6e71c448"
    [] pat = "ff" /\ len = 121 ->
         "27eca38ec1c750ae015f7c72f6aee6c44f3a0e15"
    [] pat = "ff" /\ len = 127 ->
         "a1cb04cd174139d68f4386c25e88ec3d002cfb2d"
    [] pat = "ff" /\ len = 128 ->
         "cd5bd20e9a0f22d7367cc169e2844a02751c7c91"
    [] pat = "ff" /\ len = 129 ->
         "b3443942b6c55f29f59d3e8d69fb13c179f83ddb"

\* The whole content of a file.
Content(file) == ReadBytes(file, 0, file.len)

\* calculate_block_shas has returned the block list of a non-empty file.
Hashed == calc.pc = "returned" /\ calc.file.exists /\ calc.file.len > 0

\* C18: for a non-empty file of S bytes the list has ceil(S / ChunkSize)
\* entries and comes with S; entry k, for every k but the last, is the
\* register export after the first k chunks, and only the last entry is a
\* finalized digest.
C18_BlockList ==
  Hashed =>
    LET S == calc.file.len
        n == (S + ChunkSize - 1) \div ChunkSize
    IN /\ calc.ret = "block_shas"
       /\ calc.file_size = S
       /\ Len(calc.block_shas) = n
       /\ calc.kinds = [k \in 1..n |-> IF k = n THEN "final" ELSE "state"]
       /\ \A k \in 1..(n - 1) :
            calc.block_shas[k] =
              GetStateHex(Update(NewSHA1,
                                 ReadBytes(calc.file, 0, k * ChunkSize)))

C18_Witness ==
  /\ Hashed /\ calc.file.len = 2 * ChunkSize
  /\ calc.kinds = << "state", "final" >>

\* The number a two-character hex string at position i of s denotes.
HexValue(c) == CHOOSE n \in 0..15 : HexChar(n) = c
HexPair(s, i) ==
  16 * HexValue(SubSeq(s, i, i)) + HexValue(SubSeq(s, i + 1, i + 1))

\* Byte k of a word, k = 0 the least significant.
ByteOf(x, k) ==
  CASE k = 0 -> x[2] % 256
    [] k = 1 -> x[2] \div 256
    [] k = 2 -> x[1] % 256
    [] OTHER -> x[1] \div 256

\* C19: get_state_hex gives 40 hex characters holding the registers h0..h4
\* in order, each least significant byte first; final_hex gives the five
\* finalized registers, each most significant byte first.
C19_ByteOrder ==
  LET s == GetStateHex(sha1)
      d == FinalHex(sha1)
      f == FinalRegisters(sha1)
  IN /\ Len(s) = 40
     /\ Len(d) = 40
     /\ \A j \in 1..5, k \in 0..3 :
          /\ HexPair(s, 8 * (j - 1) + 2 * k + 1) = ByteOf(sha1.h[j], k)
          /\ HexPair(d, 8 * (j - 1) + 2 * k + 1) = ByteOf(f[j], 3 - k)

C19_Witness ==
  /\ calc.pc = "reading" /\ calc.pos >= 64
  /\ Len(GetStateHex(sha1)) = 40
  /\ \E j \in 1..5 : ByteOf(sha1.h[j], 0) # ByteOf(sha1.h[j], 3)

\* C20: the last entry of the block list of a non-empty file is the SHA-1
\* digest of the whole content.
C20_LastIsSHA1 ==
  Hashed =>
    calc.block_shas[Len(calc.block_shas)]
      = ReferenceSHA1(calc.file.pat, calc.file.len)

C20_Witness ==
  /\ Hashed /\ calc.file.len > ChunkSize /\ calc.file.len % 64 = 56
  /\ calc.block_shas[Len(calc.block_shas)]
       = ReferenceSHA1(calc.file.pat, calc.file.len)

\* ------------------------------------------------------------------------
\* C21. Original statement: authorization-failure retries of a block are
\* counted apart from its transient-failure retries, so the retry that
\* follows the sleep of line 171 leaves the loop counter of the block where
\* it was.
C21_DistinctCounters ==
  [][\A i \in Tasks :
       (task[i].pc = "sleeping_auth" /\ task'[i].pc \notin {"sleeping_auth", "done"})
         => task'[i].retry = task[i].retry]_vars

\* C21, amended: authorization failures and transient failures of a block
\* are counted by the one loop counter of upload_part_task. Every request of
\* a block has used one of its 5 attempts, and the retry after an
\* authorization failure uses the next one as the retry after a network
\* exception does.
C21_SharedCounter ==
  /\ [](\A i \in Tasks : /\ task[i].sent <= task[i].retry + 1
                         /\ task[i].retry <= PartAttempts)
  /\ [][\A i \in Tasks :
         (/\ task[i].pc \in {"sleeping", "sleeping_auth"}
          /\ task'[i].pc \notin {task[i].pc, "done"})
           => task'[i].retry = task[i].retry + 1]_vars

\* A block whose fifth and last attempt was answered by an authorization
\* failure after four earlier failures.
C21_Witness ==
  \E i \in Tasks : /\ task[i].pc = "sleeping_auth"
                   /\ task[i].retry = PartAttempts - 1
                   /\ task[i].sent = PartAttempts

Phase ==
  CASE upc = "idle" -> 0
    [] upc = "hashing" -> 1
    [] upc = "init_post" -> 2
    [] upc = "await_token" ->
         IF tcall[MainProc].site \in {"init_get", "init_force"} THEN 2 ELSE 4
    [] upc \in {"wait_first", "wait_all"} -> 3
    [] upc = "fin_post" -> 4
    [] OTHER -> 5

\* The part tasks that were created and have not returned.
Running == {i \in Tasks : task[i].pc \notin {"none", "done"}}

\* C23. Every upload goes through Idle, Hashing, Initiating, UploadingParts,
\* Finishing, Done or Failed in this order and never back: an Initiate
\* request is sent only in Initiating, after hashing; a part task exists and
\* an upload-part request is sent only after an Initiate answer delivered
\* the upload key; a Finish request is sent only in Finishing and while no
\* part task is running; once upload_file has returned no request of any
\* phase is sent.
C23_PhaseOrder ==
  /\ [](/\ initSent > 0 => Phase >= 2
        /\ (\E i \in Tasks : task[i].pc # "none")
             => (Phase >= 3 /\ init_res = "key" /\ upload_key # None)
        /\ (Phase = 4 \/ finishSent > 0)
             => (Running = {} /\ \A i \in 1..fileN : task[i].pc = "done"))
  /\ [][/\ Phase' >= Phase
        /\ initSent' > initSent => (Phase \in {1, 2} /\ Phase' = 2)
        /\ (\E i \in Tasks : task'[i].sent > task[i].sent)
             => (Phase = 3 /\ Phase' = 3)
        /\ finishSent' > finishSent => (Phase' = 4 /\ Running = {})]_vars

\* A Finish request is in flight after every block of a three-block file was
\* handled by its task.
C23_Witness ==
  /\ upc = "fin_post" /\ finishSent = 1 /\ fileN = MaxBlocks
  /\ \A i \in 1..fileN : task[i].pc = "done"

\* ------------------------------------------------------------------------
\* The callers whose refresh request (_do_refresh line 43) is in flight.
InRefresh == {p \in Procs : tcall[p].st = "refresh"}

\* C24. At every instant at most one refresh request of the TokenManager is
\* in flight, and it belongs to the caller holding the lock; access_token
\* and expires_at change only in the step in which that caller's refresh
\* request is answered, whatever the other callers do.
C24_OneRefreshUnderLock ==
  /\ [](Cardinality(InRefresh) <= 1 /\ (InRefresh # {} => locked))
  /\ [][(access_token' # access_token \/ expires_at' # expires_at)
          => (locked /\ \E p \in InRefresh : tcall'[p].st # "refresh")]_vars

\* A refresh request is in flight while another caller waits for the lock,
\* with a token stored by an earlier refresh.
C24_Witness ==
  /\ InRefresh # {}
  /\ waiters # << >>
  /\ refreshedOk

\* ------------------------------------------------------------------------
\* C25. A token returned by register_file is single-use: handle_file
\* returns the file path for it at most once.
C25_SingleUse == \A t \in Tokens : served[t] <= 1

\* The expiry time of a registered token: registration time plus the timeout
\* given, or default_timeout when none was given.
Expiry(t) ==
  registered[t].at + (IF registered[t].timeout = << >> THEN default_timeout
                  ELSE registered[t].timeout[1])

\* The token was never returned by register_file, or its expiry time has
\* passed at time now.
Invalid(t, now) == t \notin DOMAIN registered \/ Expiry(t) < now

\* C26. handle_file raises KeyError for a token that was never registered
\* or whose expiry time has passed, a path it returns is the path the token
\* was registered with, and check_token_expired returns true for exactly the
\* unregistered and the expired tokens.
C26_NoPathForInvalidToken ==
  /\ fret.op = "handle" =>
       /\ Invalid(fret.token, fret.now) => fret.ret = "KeyError"
       /\ fret.ret \in FtsPaths =>
            /\ ~Invalid(fret.token, fret.now)
            /\ fret.ret = registered[fret.token].path
  /\ fret.op = "check" =>
       (fret.ret = "True" <=> Invalid(fret.token, fret.now))

\* handle_file refused a registered token whose expiry time had passed.
C26_Witness ==
  /\ fret.op = "handle" /\ fret.ret = "KeyError"
  /\ fret.token \in DOMAIN registered
  /\ Expiry(fret.token) < fret.now

\* ------------------------------------------------------------------------
\* C27. Between two consecutive upload-part requests of a block there is a
\* backoff suspension: the step that handles a failed answer, whatever the
\* failure, never sends the next request of the block.
C27_BackoffBeforeRetry ==
  \A a \in answers :
    (a.phase = "part" /\ a.r # "ok") => task[a.i].pc # "posting"

\* C28. When upload_file returns the file id of Finish, the upload-part
\* request of every block index 1..N was acknowledged with errcode 0.
C28_AllBlocksAcknowledged ==
  (upc = "done" /\ result = "fid")
    => \A i \in 1..fileN : task[i].pc = "done" /\ task[i].ok

\* ------------------------------------------------------------------------
\* All the bytes given to the hasher so far, as one byte string.
FedBytes == [j \in 1..fed.n |-> PatByte(fed.pat, j - 1)]

\* C29. However the byte stream was split into update calls, the hasher is
\* in the state (registers, buffered bytes, total length) that one update
\* call with all the bytes leaves a new hasher in.
C29_SplitIndependent ==
  hcall.op # "none" => sha1 = Update(NewSHA1, FedBytes)

\* Two update calls in a row, or more, have fed the hasher past a chunk
\* boundary, neither of them alone.
C29_Witness ==
  /\ hcall.op = "update" /\ hcall.again
  /\ fed.n = 57 + 7 + 7 /\ Len(sha1.buffer) = 7

\* C30. get_state_hex and final_hex leave the registers, the buffer and the
\* total length of the hasher as they were, and each returns the string that
\* belongs to the bytes fed so far, whatever calls were made before.
C30_ReadOnly ==
  /\ [][hcall'.op \in {"get_state_hex", "final_hex"} => sha1' = sha1]_vars
  /\ [](/\ hcall.op = "final_hex"
             => hcall.ret = FinalHex(Update(NewSHA1, FedBytes))
        /\ hcall.op = "get_state_hex"
             => hcall.ret = GetStateHex(Update(NewSHA1, FedBytes)))

\* final_hex was called twice in a row on a hasher holding buffered bytes
\* after a processed chunk.
C30_Witness ==
  /\ hcall.op = "final_hex" /\ hcall.again
  /\ fed.n > 64 /\ sha1.buffer # << >>

\* ------------------------------------------------------------------------
\* C31. A recursive_search call makes at most max_requests (100) list_files
\* calls.
C31_RequestBound == rs.request_count <= max_requests

\* C32. When every component of the path exists as a folder,
\* create_folder_by_path sends no file_create request and returns the id of
\* the last folder, also when a list_files call fails.
C32_NoCreateWhenAllExist ==
  (cf.pc # "idle" /\ cf.existing = cf.n) =>
    /\ cf.pc # "creating"
    /\ cf.creates = 0
    /\ cf.pc = "done" => cf.ret = "id"

\* C33. No folder creation, move or delete request is sent for a delete
\* command whose sender is not in the admins list.
C33_NoMutationForNonAdmin ==
  \A c \in Cmds :
    (plug.cmd[c].pc # "idle" /\ ~plug.cmd[c].admin)
      => plug.cmd[c].mutating = 0

\* C34. Every caller of _init_recycle_bin that returns with recycle_bin_id
\* set gets a truthy result, and so does not report an initialisation
\* failure.
C34_InitResultTruthy ==
  \A c \in Cmds :
    (plug.cmd[c].initRet # "nocall" /\ plug.cmd[c].initSet)
      => (plug.cmd[c].initRet = "True" /\ plug.cmd[c].pc # "init_failed")

\* C35. Once upload_file has returned, with a file id or with None, no
\* block-upload task of the call is still running: none sends a request,
\* sleeps or waits for a token.
C35_NoTaskAfterReturn == upc = "done" => Running = {}

\* C36. No Initiate, upload-part or Finish request is in flight without a
\* token: a get_token call that returned None is followed by no request.
C36_NoRequestWithoutToken ==
  /\ upc \in {"init_post", "fin_post"} => reqTok # None
  /\ \A i \in Tasks : task[i].pc = "posting" => task[i].tok # None

\* Every upload_file call comes to an end, by a return or by an exception.
UploadTerminates == (upc # "idle") ~> (upc = "done")

\* C37. Every upload_file call eventually ends with a file id or with None,
\* when every request is eventually answered.
C37_TerminatesDoneOrFailed ==
  (upc # "idle") ~> (upc = "done" /\ result # Raised)

\* C38. A token that get_token returns without a refresh of its own is the
\* cached token the call found, whose expiry is unknown (expires_at = 0) or
\* more than Margin seconds after the clock value the call sampled; a token
\* returned after the call's own refresh is the one that refresh stored.
C38_FreshOrRefreshed ==
  \A e \in Ev : e.ret # None =>
     IF e.issued
     THEN e.ret = e.tok1 /\ e.exp1 >= e.now
     ELSE e.ret = e.tok0 /\ (e.exp0 = 0 \/ e.now + Margin < e.exp0)

\* A non-forced call found a cached token of known expiry inside the margin
\* and returned another token, from its own refresh.
C38_Witness ==
  \E e \in Ev : /\ ~e.force /\ e.tok0 # None /\ e.exp0 > 0
                /\ ~(e.now + Margin < e.exp0)
                /\ e.issued /\ e.ret # None /\ e.ret # e.tok0

\* C39. For an existing file of 0 bytes, whose block list is empty,
\* upload_file returns None after hashing: no get_token call is made, the
\* token cache is untouched, and no Initiate, upload-part or Finish request
\* is sent.
C39_EmptyFile ==
  (upc # "idle" /\ fileExists /\ fileN = 0) =>
     /\ upc \in {"hashing", "done"}
     /\ upc = "done" => result = None
     /\ \A p \in Procs : tcall[p].st = "idle"
     /\ ~locked /\ waiters = << >> /\ ~refreshedOk
     /\ access_token = hardcoded_token /\ expires_at = 0
     /\ initSent = 0 /\ finishSent = 0 /\ NoPartRequest /\ reqTok = None

C39_Witness == fileExists /\ fileN = 0 /\ upc = "done" /\ result = None

====
